---- MODULE Spec2Model ----
(***************************************************************************)
(* Model of src/src/Hex1b/Terminal/native/pty_spawn.c: the four exported   *)
(* operations pty_open, pty_spawn, pty_resize and pty_wait, the forked     *)
(* child's setup sequence up to execve, and the operating-system state     *)
(* they act on (descriptor tables, pseudo-terminals, signal masks and      *)
(* dispositions, the process table).                                       *)
(*                                                                         *)
(* The calling process has a main thread, which may call every operation   *)
(* and close a master descriptor it owns, and a waiter thread, which only  *)
(* calls pty_wait.  Children run concurrently with the callers.            *)
(***************************************************************************)
EXTENDS Integers, Sequences, FiniteSets

\* ------------------------------------------------------------------ bounds
MaxPty == 1         \* pseudo-terminals the kernel can hand out
MaxChildren == 1    \* forks that can succeed
MaxFd == 4          \* highest descriptor number of a process (RLIMIT_NOFILE - 1)
MaxPolls == 8          \* polls of one pty_wait that are followed
TopSpan == 19          \* timeouts below INT_MAX that are tried
StartSteps == 4        \* polls before the last safe one a wait is picked up at
MaxSignals == 1     \* signals sent to one child while it is being set up

\* --------------------------------------------------------------- constants
MinSlaveNameLen == 256     \* pty_open: slave_name_len < 256 is rejected
ChildFailureCode == 127    \* _exit(127)
IntMax == 2147483647       \* int elapsed, int timeout_ms: the largest int
PollIntervalMs == 10       \* pty_wait: elapsed += 10
UShortRange == 65536       \* struct winsize fields are unsigned short
SIGINT == 2
SIGKILL == 9
SIGTERM == 15
SIGSTOP == 19
NSIG == 65
STDIN_FILENO == 0
STDOUT_FILENO == 1
STDERR_FILENO == 2

Threads == {"main", "waiter"}
Ptys == 1..MaxPty
Children == 1..MaxChildren
FdNums == 0..MaxFd

\* The signals whose mask bit and disposition the model tracks; every other
\* signal number below NSIG is treated by the code exactly like SIGINT.
TrackedSignals == {SIGINT, SIGKILL, SIGTERM, SIGSTOP}
\* SIGKILL and SIGSTOP can be neither blocked nor caught.
Blockable == TrackedSignals \ {SIGKILL, SIGSTOP}

\* ------------------------------------------------------- descriptor tables
Free == [kind |-> "free", pty |-> 0]
Other == [kind |-> "other", pty |-> 0]
Master(p) == [kind |-> "master", pty |-> p]
Slave(p) == [kind |-> "slave", pty |-> p]

FreeFds(tab) == {fd \in FdNums : tab[fd] = Free}
\* open(), posix_openpt() and fork() hand out the lowest unused number.
LowestFree(tab) == CHOOSE fd \in FreeFds(tab) : \A g \in FreeFds(tab) : fd <= g

\* ----------------------------------------------------------------- winsize
NoWinsize == [ws_row |-> 0, ws_col |-> 0, ws_xpixel |-> 0, ws_ypixel |-> 0]
\* Conversion of an int to unsigned short (C11 6.3.1.3: modulo 2^16).
ToUShort(x) == x % UShortRange

VARIABLES
    fds,        \* descriptor table of the calling process
    ptys,       \* kernel state of each pseudo-terminal
    handlers,   \* signal dispositions of the calling process
    thr,        \* per calling thread: position, signal mask, errno, locals
    res,        \* per calling thread: the call in progress or last returned
    child       \* per forked child: position in the setup, OS state

vars == <<fds, ptys, handlers, thr, res, child>>

\* --------------------------------------------------------------- the callers
\* A calling thread between two calls, and its result record before a call.
IdleThread(m) ==
    [pc |-> "idle", mask |-> m, errno |-> "unchanged", old_signals |-> {},
     pid |-> 0, wpid |-> 0, timeout |-> 0, elapsed |-> 0, osnull |-> FALSE]

\* res[t]: what the call of thread t has done so far.  ret, the out_* fields
\* (the empty set: not written) and errno in thr[t] are what the caller sees;
\* errno is "unchanged" while the call has not assigned it;
\* calls (the OS calls made, in order), failcall and cause (the OS call that
\* failed and the errno it set), fd, pty, forked, entry_mask, args and valid
\* (the preconditions of the operation hold) record the history of the call;
\* raw, failed and exec are the raw status and the history of the child a
\* pty_wait has reaped; elapsed is the value of the local elapsed when a
\* pty_wait returned; found is what the process table held for the pid when
\* pty_wait was called, and after_timeout tells that the thread's previous
\* call was a pty_wait on the same pid that timed out; again tells that the
\* thread's previous call was a successful pty_resize with the same arguments;
\* reaped_before tells that the pid of a pty_wait had been reaped when it was
\* called, and overlap that another thread's pty_wait on the same pid was in
\* progress at some moment of this one.
NoRes ==
    [op |-> "none", done |-> FALSE, ret |-> 0, valid |-> TRUE,
     calls |-> <<>>, failcall |-> "none", cause |-> "OK",
     out_master_fd |-> {}, out_slave_name |-> {}, out_pid |-> {},
     out_status |-> {}, fd |-> {}, pty |-> 0, w |-> 0, h |-> 0,
     forked |-> {}, entry_mask |-> {}, raw |-> {}, pid |-> 0, timeout |-> 0,
     args |-> <<>>, failed |-> "none", exec |-> "no", elapsed |-> 0,
     found |-> "-", after_timeout |-> FALSE, again |-> FALSE,
     reaped_before |-> FALSE, overlap |-> FALSE]

NoPty == [alloc |-> FALSE, granted |-> FALSE, unlocked |-> FALSE, ws |-> NoWinsize]

StdioOpen == [fd \in FdNums |-> IF fd <= STDERR_FILENO THEN Other ELSE Free]
StdioClosed == [fd \in FdNums |-> Free]
AllDefault == [s \in TrackedSignals |-> "DFL"]
SomeCaught == [AllDefault EXCEPT ![SIGINT] = "HANDLER", ![SIGTERM] = "IGN"]
\* What the caller starts with: signal dispositions, signal mask and
\* descriptor table.
Dispositions == {<<AllDefault, {SIGTERM}, StdioOpen>>, <<SomeCaught, {}, StdioClosed>>}

\* ----------------------------------------------------------------- pty_open
\* Inputs of pty_open.
\* out_master_fd is NULL, out_slave_name is NULL, slave_name_len.
OpenArgs == {<<FALSE, FALSE, 256>>, <<TRUE, FALSE, 256>>, <<FALSE, TRUE, 256>>,
             <<FALSE, FALSE, 255>>}
\* width, height
Geometries == {<<0, 24>>, <<80, 24>>, <<65616, 24>>}

\* The four allocation steps, in order; "none": every step succeeds.
OpenSteps == <<"posix_openpt", "grantpt", "unlockpt", "ptsname">>
OpenFailPoints == {"none"} \cup {OpenSteps[i] : i \in 1..Len(OpenSteps)}
StepErrno(call) ==
    CASE call = "posix_openpt" -> "EMFILE"
      [] call = "grantpt" -> "EACCES"
      [] call = "unlockpt" -> "EBADF"
      [] call = "ptsname" -> "ENOTTY"
      [] call = "ioctl" -> "ENOTTY"
      [] call = "fork" -> "EAGAIN"
      [] call = "waitpid" -> "ECHILD"
      [] OTHER -> "EIO"
\* The OS calls made up to and including step number i.
CallsUpTo(i) == SubSeq(OpenSteps, 1, i)
StepIndex(call) == CHOOSE i \in 1..Len(OpenSteps) : OpenSteps[i] = call

\* An argument check that forgets the capacity of the name buffer.
PtyOpenArgsInvalidNoLen(omf_null, osn_null, len) == omf_null \/ osn_null
PtyOpenArgsInvalid(omf_null, osn_null, len) ==
    omf_null \/ osn_null \/ len < MinSlaveNameLen

ClosedTable(tab, fd) == [tab EXCEPT ![fd] = Free]
\* A failure path that returns without closing the master.
OpenCleanupMissing(tab, fd) == tab
\* close(master_fd) on a failure path.
OpenCleanup(tab, fd) == ClosedTable(tab, fd)
\* int saved_errno = errno; close(master_fd); errno = saved_errno;
ErrnoAfterCleanup(saved, after_close) == saved
\* A winsize that carries the cell size in its pixel fields.
WinsizeOfWithPixels(width, height) ==
    [ws_row |-> ToUShort(height), ws_col |-> ToUShort(width),
     ws_xpixel |-> ToUShort(width), ws_ypixel |-> ToUShort(height)]
\* ws.ws_row = height; ws.ws_col = width; ws.ws_xpixel = 0; ws.ws_ypixel = 0;
\* (lines 224-228 of pty_open, lines 247-251 of pty_resize)
WinsizeOf(width, height) ==
    [ws_row |-> ToUShort(height), ws_col |-> ToUShort(width),
     ws_xpixel |-> 0, ws_ypixel |-> 0]
\* if (width > 0 && height > 0)
PushesGeometry(width, height) == width > 0 /\ height > 0

FreePtys == {p \in Ptys : ~ptys[p].alloc}
NewPty == CHOOSE p \in FreePtys : \A q \in FreePtys : p <= q

Return(t, r, e) ==
    /\ res' = [res EXCEPT ![t] = [r EXCEPT !.done = TRUE]]
    /\ thr' = [thr EXCEPT ![t] = [IdleThread(thr[t].mask) EXCEPT !.errno = e]]

\* Lines 209-232: the pseudo-terminal after a pty_open in which the four
\* allocation steps succeeded, and what that pty_open has done.
OpenedPty(w, h, ioctl_ok) ==
    [alloc |-> TRUE, granted |-> TRUE, unlocked |-> TRUE,
     ws |-> IF PushesGeometry(w, h) /\ ioctl_ok THEN WinsizeOf(w, h) ELSE NoWinsize]
OpenedResult(a, fd, p, w, h, ioctl_ok) ==
    [NoRes EXCEPT !.op = "pty_open", !.args = a, !.valid = TRUE,
                  !.ret = 0, !.fd = {fd}, !.pty = p, !.w = w, !.h = h,
                  !.calls = IF PushesGeometry(w, h)
                            THEN Append(CallsUpTo(4), "ioctl")
                            ELSE CallsUpTo(4),
                  !.failcall = IF ioctl_ok THEN "none" ELSE "ioctl",
                  !.cause = IF ioctl_ok THEN "OK" ELSE StepErrno("ioctl"),
                  !.out_master_fd = {fd}, !.out_slave_name = {p}]

PtyOpen(t) ==
    /\ t = "main"
    /\ thr[t].pc = "idle"
    /\ \E a \in OpenArgs :
        LET omf_null == a[1]
            osn_null == a[2]
            len == a[3]
            r0 == [NoRes EXCEPT !.op = "pty_open", !.args = a,
                     !.valid = ~(omf_null \/ osn_null \/ len < MinSlaveNameLen)]
        IN
        IF PtyOpenArgsInvalid(omf_null, osn_null, len)
        THEN /\ Return(t, [r0 EXCEPT !.ret = -1], "EINVAL")
             /\ UNCHANGED <<fds, ptys, handlers, child>>
        ELSE \E failat \in OpenFailPoints, clobber \in BOOLEAN :
            /\ (FreeFds(fds) = {} \/ FreePtys = {}) => failat = "posix_openpt"
            /\ IF failat = "posix_openpt"
               THEN \* if (master_fd < 0) return -1;
                    /\ ~clobber
                    /\ Return(t, [r0 EXCEPT !.ret = -1, !.calls = CallsUpTo(1),
                                    !.failcall = failat, !.cause = StepErrno(failat)],
                              StepErrno(failat))
                    /\ UNCHANGED <<fds, ptys, handlers, child>>
               ELSE LET fd == LowestFree(fds)
                        p == NewPty
                        opened == [fds EXCEPT ![fd] = Master(p)]
                    IN
                    IF failat # "none"
                    THEN \* grantpt, unlockpt or ptsname failed
                         /\ fds' = OpenCleanup(opened, fd)
                         /\ Return(t, [r0 EXCEPT !.ret = -1, !.fd = {fd}, !.pty = p,
                                         !.calls = Append(CallsUpTo(StepIndex(failat)), "close"),
                                         !.failcall = failat, !.cause = StepErrno(failat)],
                                   ErrnoAfterCleanup(StepErrno(failat),
                                        IF clobber THEN "EINTR" ELSE StepErrno(failat)))
                         /\ UNCHANGED <<ptys, handlers, child>>
                    ELSE \* strncpy of the name, the geometry push, *out_master_fd
                         \E g \in Geometries, ioctl_ok \in BOOLEAN :
                         LET w == g[1]
                             h == g[2]
                         IN
                         /\ ~clobber
                         /\ (~PushesGeometry(w, h)) => ioctl_ok
                         /\ fds' = opened
                         /\ ptys' = [ptys EXCEPT ![p] = OpenedPty(w, h, ioctl_ok)]
                         /\ Return(t, OpenedResult(a, fd, p, w, h, ioctl_ok),
                                   IF ioctl_ok THEN "unchanged" ELSE StepErrno("ioctl"))
                         /\ UNCHANGED <<handlers, child>>

\* --------------------------------------------------------------- pty_resize
\* ioctl(fd, TIOCSWINSZ, &ws) by the calling process: "ok" on either end of
\* a pseudo-terminal, EBADF on a closed number, ENOTTY on anything else.
IoctlErrno(entry) ==
    CASE entry.kind = "free" -> "EBADF"
      [] entry.kind = "other" -> "ENOTTY"
      [] OTHER -> "OK"

PtyResize(t) ==
    /\ t = "main"
    /\ thr[t].pc = "idle"
    /\ \E master_fd \in FdNums, g \in Geometries :
        LET w == g[1]
            h == g[2]
            e == IoctlErrno(fds[master_fd])
            r0 == [NoRes EXCEPT !.op = "pty_resize", !.w = w, !.h = h,
                     !.fd = {master_fd}, !.pty = fds[master_fd].pty,
                     !.calls = <<"ioctl">>,
                     !.again = /\ res[t].op = "pty_resize" /\ res[t].ret = 0
                               /\ res[t].fd = {master_fd}
                               /\ res[t].w = w /\ res[t].h = h]
        IN
        IF e = "OK"
        THEN /\ ptys' = [ptys EXCEPT ![fds[master_fd].pty].ws = WinsizeOf(w, h)]
             /\ Return(t, [r0 EXCEPT !.ret = 0], "unchanged")
             /\ UNCHANGED <<fds, handlers, child>>
        ELSE /\ Return(t, [r0 EXCEPT !.ret = -1, !.failcall = "ioctl", !.cause = e], e)
             /\ UNCHANGED <<fds, ptys, handlers, child>>

\* The caller closes a master descriptor it owns.
CloseMaster(t) ==
    /\ t = "main"
    /\ thr[t].pc = "idle"
    /\ \E fd \in FdNums :
        /\ fds[fd].kind = "master"
        /\ fds' = ClosedTable(fds, fd)
    /\ UNCHANGED <<ptys, handlers, thr, res, child>>

\* ---------------------------------------------------------------- pty_spawn
\* Inputs of pty_spawn: slave_name names pseudo-terminal p, or (0) no device.
\* The values of slave_name, working_dir and envp are drawn where the child
\* first reads them; nothing reads them before.
SlaveNames == 0..MaxPty
WorkingDirs == {"NULL", "", "dir"}
EnvArgs == {"NULL", "envp"}
\* path, argv, slave_name, out_pid is NULL.
SpawnArgs == {<<FALSE, FALSE, FALSE, FALSE>>, <<TRUE, FALSE, FALSE, FALSE>>,
              <<FALSE, TRUE, FALSE, FALSE>>, <<FALSE, FALSE, TRUE, FALSE>>,
              <<FALSE, FALSE, FALSE, TRUE>>}

\* An argument check that forgets slave_name.
SpawnArgsInvalidNoSlave(path_null, argv_null, slave_null, outpid_null) ==
    path_null \/ argv_null \/ outpid_null
SpawnArgsInvalid(path_null, argv_null, slave_null, outpid_null) ==
    path_null \/ argv_null \/ slave_null \/ outpid_null

\* sigfillset(&all_signals)
FilledSet == TrackedSignals
\* pthread_sigmask(SIG_SETMASK, set, ...): the kernel never blocks SIGKILL
\* and SIGSTOP.
SetMask(set) == set \ {SIGKILL, SIGSTOP}
\* pthread_sigmask(SIG_SETMASK, &all_signals, &old_signals)
MaskForFork(cur) == SetMask(FilledSet)
\* A path that forgets to restore the mask.
RestoreMaskMissing(old, cur) == cur
\* pthread_sigmask(SIG_SETMASK, &old_signals, NULL)
RestoreMask(old, cur) == SetMask(old)
\* A failure path that returns whatever errno the restore left.
ErrnoAfterRestoreLost(saved, after_restore) == after_restore
\* int saved_errno = errno; pthread_sigmask(...); errno = saved_errno;
ErrnoAfterRestore(saved, after_restore) == saved

NoChild ==
    [st |-> "none", pc |-> "-", mask |-> {}, pending |-> {}, nsig |-> 0,
     handlers |-> AllDefault, fds |-> StdioClosed, old_signals |-> {},
     slave |-> 0, wd |-> "NULL", sig |-> 0, slave_fd |-> 0,
     session |-> "inherited", ctty |-> 0, cwd |-> "inherited", env |-> "-",
     failed |-> "none", soft |-> {}, exec |-> "no", ran |-> {}, raw |-> 0,
     ioctls |-> <<>>, inherited |-> {}, entry_mask |-> {}, trace |-> <<>>]

UnbornChildren == {c \in Children : child[c].st = "none"}
NewChild == CHOOSE c \in UnbornChildren : \A d \in UnbornChildren : c <= d

\* Lines 65-73: argument check, then every signal is blocked.  The caller
\* has one child at a time: it spawns the next when the last one is reaped.
PtySpawnCall(t) ==
    /\ t = "main"
    /\ thr[t].pc = "idle"
    /\ \A c \in Children : child[c].st \in {"none", "reaped"}
    /\ \E a \in SpawnArgs :
        LET path_null == a[1]
            argv_null == a[2]
            slave_null == a[3]
            outpid_null == a[4]
            r0 == [NoRes EXCEPT !.op = "pty_spawn", !.entry_mask = thr[t].mask,
                     !.args = a,
                     !.valid = ~(path_null \/ argv_null \/ slave_null \/ outpid_null)]
        IN
        IF SpawnArgsInvalid(path_null, argv_null, slave_null, outpid_null)
        THEN /\ Return(t, [r0 EXCEPT !.ret = -1], "EINVAL")
        ELSE /\ thr' = [thr EXCEPT ![t] =
                    [@ EXCEPT !.pc = "spawn_fork", !.old_signals = thr[t].mask,
                              !.mask = MaskForFork(thr[t].mask)]]
             /\ res' = [res EXCEPT ![t] = [r0 EXCEPT !.calls = <<"pthread_sigmask">>]]
    /\ UNCHANGED <<fds, ptys, handlers, child>>

\* Lines 75-83: fork; on failure the mask is restored and -1 returned.  On
\* success the child starts as a copy of the forking thread.
PtySpawnFork(t) ==
    /\ thr[t].pc = "spawn_fork"
    /\ \E ok \in BOOLEAN, clobber \in BOOLEAN :
        /\ UnbornChildren = {} => ~ok
        /\ IF ok
           THEN /\ ~clobber
                /\ child' = [child EXCEPT ![NewChild] =
                      [NoChild EXCEPT !.st = "setup", !.pc = "restore_mask",
                         !.mask = thr[t].mask, !.handlers = handlers,
                         !.inherited = {s \in TrackedSignals : handlers[s] = "HANDLER"},
                         !.fds = fds, !.old_signals = thr[t].old_signals,
                         !.entry_mask = res[t].entry_mask]]
                /\ thr' = [thr EXCEPT ![t] = [@ EXCEPT !.pc = "spawn_parent",
                                                       !.pid = NewChild]]
                /\ res' = [res EXCEPT ![t] = [@ EXCEPT !.calls = Append(@, "fork"),
                                                       !.forked = {NewChild}]]
           ELSE /\ LET m == RestoreMask(thr[t].old_signals, thr[t].mask)
                       e == ErrnoAfterRestore(StepErrno("fork"),
                                IF clobber THEN "EIO" ELSE StepErrno("fork"))
                   IN
                   /\ res' = [res EXCEPT ![t] =
                         [@ EXCEPT !.done = TRUE, !.ret = -1, !.failcall = "fork",
                                   !.cause = StepErrno("fork"),
                                   !.calls = @ \o <<"fork", "pthread_sigmask">>]]
                   /\ thr' = [thr EXCEPT ![t] = [IdleThread(m) EXCEPT !.errno = e]]
                /\ UNCHANGED child
    /\ UNCHANGED <<fds, ptys, handlers>>

\* Lines 155-161: the parent restores its mask and reports the pid.
PtySpawnParent(t) ==
    /\ thr[t].pc = "spawn_parent"
    /\ res' = [res EXCEPT ![t] =
          [@ EXCEPT !.done = TRUE, !.ret = 0, !.out_pid = {thr[t].pid},
                    !.calls = Append(@, "pthread_sigmask")]]
    /\ thr' = [thr EXCEPT ![t] =
          [IdleThread(RestoreMask(thr[t].old_signals, thr[t].mask))
             EXCEPT !.errno = "unchanged"]]
    /\ UNCHANGED <<fds, ptys, handlers, child>>

\* ------------------------------------------------------------ wait statuses
\* The raw status waitpid stores: the exit code in bits 8-15 for a normal
\* termination, the signal number in bits 0-6 for a termination by signal.
ExitStatus(code) == (code % 256) * 256
SignalStatus(s) == s
WIFEXITED(status) == status % 128 = 0
WEXITSTATUS(status) == (status \div 256) % 256
WIFSIGNALED(status) == status % 128 # 0 /\ status % 128 # 127
WTERMSIG(status) == status % 128

\* ---------------------------------------------------- the child of pty_spawn
\* A process that has terminated: its descriptors are closed and its memory
\* is gone, its status waits in the process table.  failed, exec and ran
\* keep how it came to terminate.
Terminated(rec, status) ==
    [NoChild EXCEPT !.st = "zombie", !.raw = status, !.failed = rec.failed,
                    !.exec = rec.exec, !.ran = rec.ran]
\* A child that shrugs a failed step off and goes on to execve.
ExitOnFailureSkipped(rec, step) ==
    [rec EXCEPT !.pc = "execve", !.soft = @ \cup {step}]
\* _exit(127) after the step named by step failed.
ExitOnFailure(rec, step) ==
    Terminated([rec EXCEPT !.failed = step], ExitStatus(ChildFailureCode))

MinOf(S) == CHOOSE s \in S : \A u \in S : s <= u
\* The kernel delivers the unblocked signals of S to the process, lowest
\* number first: a caught signal runs its handler, an ignored one is dropped,
\* one with the default disposition terminates the process.
DeliverAll(rec, S) ==
    LET fatal == {s \in S : rec.handlers[s] = "DFL"}
        first == IF fatal = {} THEN NSIG ELSE MinOf(fatal)
        caught == {s \in S : rec.handlers[s] = "HANDLER" /\ s < first}
        after == [rec EXCEPT !.ran = @ \cup caught, !.pending = @ \ S]
    IN IF fatal = {} THEN after ELSE Terminated(after, SignalStatus(first))

SetupChild(c) == child[c].st = "setup"
At(c, pc) == SetupChild(c) /\ child[c].pc = pc
Step(c, rec) == /\ child' = [child EXCEPT ![c] = rec]
                /\ UNCHANGED <<fds, ptys, handlers, thr, res>>

\* A signal is sent to a child that is still being set up (the interrupt
\* key of the terminal it was started from reaches its process group).
SentSignals == {SIGINT}
SignalChild(c) ==
    /\ SetupChild(c)
    /\ child[c].nsig < MaxSignals
    /\ \E s \in SentSignals :
        LET rec == [child[c] EXCEPT !.nsig = @ + 1, !.pending = @ \cup {s}]
        IN Step(c, IF s \in rec.mask THEN rec ELSE DeliverAll(rec, {s}))

\* Line 89: pthread_sigmask(SIG_SETMASK, &old_signals, NULL); the signals
\* that were pending and are now unblocked are delivered before it returns.
ChildRestoreMask(c) ==
    /\ At(c, "restore_mask")
    /\ LET m == RestoreMask(child[c].old_signals, child[c].mask)
           rec == [child[c] EXCEPT !.mask = m, !.pc = "reset_handlers",
                                   !.sig = MinOf(TrackedSignals),
                                   !.trace = Append(@, "restore_mask")]
       IN Step(c, DeliverAll(rec, rec.pending \ m))

NextTracked(sig) ==
    IF \E s \in TrackedSignals : s > sig
    THEN MinOf({s \in TrackedSignals : s > sig})
    ELSE NSIG
\* if (sig == SIGKILL || sig == SIGSTOP) continue;
SkipsSignal(sig) == sig = SIGKILL \/ sig = SIGSTOP
\* Lines 96-99: one iteration of the loop for a tracked signal; the loop
\* ends when no signal below NSIG is left.
ChildResetHandler(c) ==
    /\ At(c, "reset_handlers")
    /\ LET sig == child[c].sig
           h == IF SkipsSignal(sig) THEN child[c].handlers
                ELSE [child[c].handlers EXCEPT ![sig] = "DFL"]
           n == NextTracked(sig)
       IN Step(c, [child[c] EXCEPT !.handlers = h, !.sig = n,
                                   !.pc = IF n < NSIG THEN "reset_handlers" ELSE "setsid",
                                   !.trace = Append(@, "reset_handlers")])

\* Lines 103-105: setsid()
ChildSetsid(c) ==
    /\ At(c, "setsid")
    /\ \E ok \in BOOLEAN :
        Step(c, IF ok
                THEN [child[c] EXCEPT !.session = "new", !.ctty = 0, !.pc = "open",
                                      !.trace = Append(@, "setsid")]
                ELSE ExitOnFailure(child[c], "setsid"))

\* The master of pseudo-terminal p is open in some process.
HoldsMaster(tab, p) == \E fd \in FdNums : tab[fd] = Master(p)
MasterOpen(p) ==
    \/ HoldsMaster(fds, p)
    \/ \E c \in Children : HoldsMaster(child[c].fds, p)

\* Lines 110-113: open(slave_name, O_RDWR)
ChildOpenSlave(c) ==
    /\ At(c, "open")
    /\ \E ok \in BOOLEAN, p \in SlaveNames :
        LET fd == LowestFree(child[c].fds)
        IN
        /\ ok => /\ p # 0
                 /\ ptys[p].alloc /\ ptys[p].unlocked
                 /\ MasterOpen(p)
                 /\ FreeFds(child[c].fds) # {}
        /\ Step(c, IF ok
                   THEN [child[c] EXCEPT !.slave_fd = fd, !.fds[fd] = Slave(p),
                                         !.slave = p, !.pc = "ctty",
                                         !.trace = Append(@, "open")]
                   ELSE ExitOnFailure(child[c], "open"))

\* Attempts in which the forcing request follows a request that succeeded.
CttyAttemptsAlwaysForcing == {<<"ok", "ok">>, <<"failed", "ok">>, <<"failed", "failed">>}
\* if (ioctl(slave_fd, TIOCSCTTY, 0) < 0) { ioctl(slave_fd, TIOCSCTTY, 1); }
\* the results of the requests the child makes.
CttyAttempts == {<<"ok">>, <<"failed", "ok">>, <<"failed", "failed">>}

\* Lines 116-122: ioctl(slave_fd, TIOCSCTTY, 0) and, only when it failed,
\* ioctl(slave_fd, TIOCSCTTY, 1), whose result is not looked at.  The
\* non-forcing request is refused while another session holds the device;
\* the forcing one takes it away from that session.
ChildCtty(c) ==
    /\ At(c, "ctty")
    /\ \E results \in CttyAttempts :
        LET p == child[c].slave
            got == results[Len(results)] = "ok"
        IN
        /\ results = <<"ok">> => \A d \in Children \ {c} : child[d].ctty # p
        /\ child' = [d \in Children |->
             IF d = c
             THEN [child[c] EXCEPT !.ioctls = results, !.pc = "dup_stdin",
                                   !.trace = @ \o SubSeq(<<"ctty", "ctty_force">>,
                                                         1, Len(results)),
                                   !.ctty = IF got THEN p ELSE @,
                                   !.soft = IF got THEN @ ELSE @ \cup {"ctty"}]
             ELSE IF got /\ child[d].ctty = p
                  THEN [child[d] EXCEPT !.ctty = 0]
                  ELSE child[d]]
        /\ UNCHANGED <<fds, ptys, handlers, thr, res>>

\* dup2(slave_fd, target): target now refers to what slave_fd refers to.
Dup2(tab, from, target) == [tab EXCEPT ![target] = tab[from]]

ChildDup(c, pc, target, next) ==
    /\ At(c, pc)
    /\ \E ok \in BOOLEAN :
        Step(c, IF ok
                THEN [child[c] EXCEPT !.fds = Dup2(@, child[c].slave_fd, target),
                                      !.pc = next, !.trace = Append(@, pc)]
                ELSE ExitOnFailure(child[c], pc))

\* Lines 125-133
ChildDupStdin(c) == ChildDup(c, "dup_stdin", STDIN_FILENO, "dup_stdout")
ChildDupStdout(c) == ChildDup(c, "dup_stdout", STDOUT_FILENO, "dup_stderr")
ChildDupStderr(c) == ChildDup(c, "dup_stderr", STDERR_FILENO, "close_spare")

\* A close of the opened descriptor whatever its number.
ClosesSpareAlways(slave_fd) == TRUE
\* if (slave_fd > STDERR_FILENO)
ClosesSpare(slave_fd) == slave_fd > STDERR_FILENO
\* Lines 136-138
ChildCloseSpare(c) ==
    /\ At(c, "close_spare")
    /\ Step(c, [child[c] EXCEPT
                  !.fds = IF ClosesSpare(child[c].slave_fd)
                          THEN ClosedTable(@, child[c].slave_fd) ELSE @,
                  !.trace = IF ClosesSpare(child[c].slave_fd)
                            THEN Append(@, "close_spare") ELSE @,
                  !.pc = "chdir"])

\* if (working_dir != NULL && working_dir[0] != '\0')
ChangesDir(wd) == wd # "NULL" /\ wd # ""
\* A chdir failure that ends the child like the fatal steps.
ChdirFailureFatalYes == TRUE
\* if (chdir(working_dir) < 0) { /* Non-fatal */ }
ChdirFailureFatal == FALSE
\* Lines 141-145
ChildChdir(c) ==
    /\ At(c, "chdir")
    /\ \E ok \in BOOLEAN, wd \in WorkingDirs :
        /\ ~ChangesDir(wd) => ok
        /\ Step(c, IF ok
                   THEN [child[c] EXCEPT !.pc = "execve", !.wd = wd,
                            !.cwd = IF ChangesDir(wd) THEN wd ELSE @,
                            !.trace = IF ChangesDir(wd) THEN Append(@, "chdir") ELSE @]
                   ELSE IF ChdirFailureFatal
                        THEN ExitOnFailure(child[c], "chdir")
                        ELSE [child[c] EXCEPT !.pc = "execve", !.wd = wd,
                                              !.soft = @ \cup {"chdir"},
                                              !.trace = Append(@, "chdir")])

\* char* const* env = (envp != NULL) ? envp : environ;
EnvFor(envp) == IF envp # "NULL" THEN "envp" ELSE "environ"
\* execve keeps ignored signals ignored and resets caught ones to default.
HandlersAfterExec(h) == [s \in TrackedSignals |-> IF h[s] = "IGN" THEN "IGN" ELSE "DFL"]
\* Lines 148-152: execve; when it returns, _exit(127).
ChildExecve(c) ==
    /\ At(c, "execve")
    /\ \E ok \in BOOLEAN, envp \in EnvArgs :
        Step(c, IF ok
                THEN [child[c] EXCEPT !.st = "program", !.pc = "-", !.exec = "ok",
                         !.env = EnvFor(envp), !.trace = Append(@, "execve"),
                         !.handlers = HandlersAfterExec(@),
                         !.old_signals = {}, !.sig = 0]
                ELSE ExitOnFailure([child[c] EXCEPT !.exec = "failed"], "execve"))

\* The program the child became terminates: it exits with a code of its own
\* or is killed by a signal.
ProgramStatuses == {ExitStatus(0), ExitStatus(ChildFailureCode), SignalStatus(SIGKILL)}
ProgramExit(c) ==
    /\ child[c].st = "program"
    /\ \E status \in ProgramStatuses : Step(c, Terminated(child[c], status))

\* ----------------------------------------------------------------- pty_wait
\* Inputs of pty_wait.
Timeouts == {-1, 0, 15}

\* A process table that keeps the status of a child after it was reaped.
WaitFindsKeepingReaped(pid) ==
    CASE child[pid].st = "none" -> "error"
      [] child[pid].st \in {"zombie", "reaped"} -> "terminated"
      [] OTHER -> "running"

\* What waitpid(pid, &status, ...) finds: no such child of the caller (never
\* forked, or already reaped), a terminated child, or a live one.
WaitFinds(pid) ==
    CASE child[pid].st \in {"none", "reaped"} -> "error"
      [] child[pid].st = "zombie" -> "terminated"
      [] OTHER -> "running"

\* Lines 273-279, the infinite wait's translation of the status.
TranslateInfinite(status) ==
    IF WIFEXITED(status) THEN WEXITSTATUS(status)
    ELSE IF WIFSIGNALED(status) THEN 128 + WTERMSIG(status)
    ELSE -1
\* A translation that stores the bare signal number.
TranslateBoundedNoOffset(status) ==
    IF WIFEXITED(status) THEN WEXITSTATUS(status)
    ELSE IF WIFSIGNALED(status) THEN WTERMSIG(status)
    ELSE -1
\* Lines 297-303, the polling loop's translation of the status.
TranslateBounded(status) ==
    IF WIFEXITED(status) THEN WEXITSTATUS(status)
    ELSE IF WIFSIGNALED(status) THEN 128 + WTERMSIG(status)
    ELSE -1

\* if (timeout_ms < 0)
IsInfinite(timeout_ms) == timeout_ms < 0
\* A loop that polls once more when elapsed has just reached the bound.
KeepsPollingInclusive(elapsed, timeout_ms) == elapsed <= timeout_ms
\* while (elapsed < timeout_ms)
KeepsPolling(elapsed, timeout_ms) == elapsed < timeout_ms

\* Thread t is inside a pty_wait on pid.
Waiting(t, pid) == res[t].op = "pty_wait" /\ ~res[t].done /\ res[t].pid = pid

PtyWaitCall(t) ==
    /\ thr[t].pc = "idle"
    /\ \E pid \in Children, timeout_ms \in Timeouts, osnull \in BOOLEAN :
        /\ thr' = [thr EXCEPT ![t] =
              [@ EXCEPT !.pc = IF IsInfinite(timeout_ms) THEN "wait_block" ELSE "wait_poll",
                        !.wpid = pid, !.timeout = timeout_ms, !.elapsed = 0,
                        !.osnull = osnull]]
        /\ res' = [u \in Threads |->
              IF u = t
              THEN [NoRes EXCEPT !.op = "pty_wait", !.pid = pid, !.timeout = timeout_ms,
                            !.found = WaitFinds(pid),
                            !.after_timeout = /\ res[t].op = "pty_wait" /\ res[t].done
                                              /\ res[t].pid = pid
                                              /\ res[t].ret = 1,
                            !.reaped_before = child[pid].st = "reaped",
                            !.overlap = \E v \in Threads \ {t} : Waiting(v, pid)]
              ELSE IF Waiting(u, pid) THEN [res[u] EXCEPT !.overlap = TRUE]
              ELSE res[u]]
    /\ UNCHANGED <<fds, ptys, handlers, child>>

\* waitpid took the status of the terminated child pid: the child leaves the
\* process table, the call returns 0 and stores the translated status.
Reap(t, pid, translated) ==
    /\ child' = [child EXCEPT ![pid] = [NoChild EXCEPT !.st = "reaped"]]
    /\ Return(t, [res[t] EXCEPT !.ret = 0, !.calls = Append(@, "waitpid"),
                    !.raw = {child[pid].raw}, !.failed = child[pid].failed,
                    !.exec = child[pid].exec, !.elapsed = thr[t].elapsed,
                    !.out_status = IF thr[t].osnull THEN {} ELSE {translated}],
              "unchanged")

WaitFails(t) ==
    /\ Return(t, [res[t] EXCEPT !.ret = -1, !.calls = Append(@, "waitpid"),
                    !.failcall = "waitpid", !.cause = StepErrno("waitpid"),
                    !.elapsed = thr[t].elapsed],
              StepErrno("waitpid"))
    /\ UNCHANGED child

\* Lines 268-281: waitpid(pid, &status, 0) returns once the child has
\* terminated, or fails.
PtyWaitBlock(t) ==
    /\ thr[t].pc = "wait_block"
    /\ LET pid == thr[t].wpid IN
       /\ WaitFinds(pid) # "running"
       /\ IF WaitFinds(pid) = "error"
          THEN WaitFails(t)
          ELSE Reap(t, pid, TranslateInfinite(child[pid].raw))
    /\ UNCHANGED <<fds, ptys, handlers>>

\* elapsed += 10 on an int: the sum when it is an int; when it is not, the
\* behaviour is undefined and the build decides: the sum wraps around to a
\* negative int, or the addition traps and the process is aborted.
IntMin == -IntMax - 1
ElapsedAfterSleep(elapsed) ==
    IF elapsed <= IntMax - PollIntervalMs
    THEN {[elapsed |-> elapsed + PollIntervalMs, pc |-> "wait_poll"]}
    ELSE {[elapsed |-> IntMin + (elapsed - (IntMax - PollIntervalMs) - 1),
           pc |-> "wait_poll"],
          [elapsed |-> elapsed, pc |-> "aborted"]}

\* A timeout that takes the status of a terminated child on its way out.
TimesOutReaping(t) ==
    /\ Return(t, [res[t] EXCEPT !.ret = 1, !.elapsed = thr[t].elapsed],
              "unchanged")
    /\ child' = [child EXCEPT ![thr[t].wpid] =
                   IF @.st = "zombie" THEN [NoChild EXCEPT !.st = "reaped"] ELSE @]
\* Line 314: return 1; nothing else is done.
TimesOut(t) ==
    /\ Return(t, [res[t] EXCEPT !.ret = 1, !.elapsed = thr[t].elapsed],
              "unchanged")
    /\ UNCHANGED child

\* Lines 286-314: one test of the loop condition and, when it holds, one
\* waitpid(pid, &status, WNOHANG) with what follows it.
PtyWaitPoll(t) ==
    /\ thr[t].pc = "wait_poll"
    /\ LET pid == thr[t].wpid IN
       IF KeepsPolling(thr[t].elapsed, thr[t].timeout)
       THEN CASE WaitFinds(pid) = "error" -> WaitFails(t)
              [] WaitFinds(pid) = "terminated" ->
                    Reap(t, pid, TranslateBounded(child[pid].raw))
              [] OTHER ->
                    /\ Len(res[t].calls) < 2 * MaxPolls
                    /\ \E after \in ElapsedAfterSleep(thr[t].elapsed) :
                          thr' = [thr EXCEPT ![t].elapsed = after.elapsed,
                                             ![t].pc = after.pc]
                    /\ res' = [res EXCEPT ![t].calls = @ \o <<"waitpid", "usleep">>]
                    /\ UNCHANGED child
       ELSE TimesOut(t)
    /\ UNCHANGED <<fds, ptys, handlers>>

\* ------------------------------------------------------------ specification
Init ==
    /\ ptys = [p \in Ptys |-> NoPty]
    /\ \E d \in Dispositions :
        /\ handlers = d[1]
        /\ thr = [t \in Threads |-> IdleThread(d[2])]
        /\ fds = d[3]
    /\ res = [t \in Threads |-> NoRes]
    /\ child = [c \in Children |-> NoChild]

\* The callers of the module are single-threaded (one thread calls every
\* operation); the children run concurrently with it.
Next ==
    \/ \E t \in {"main"} :
        \/ PtyOpen(t)
        \/ PtySpawnCall(t)
        \/ PtySpawnFork(t)
        \/ PtySpawnParent(t)
        \/ PtyWaitCall(t)
        \/ PtyWaitBlock(t)
        \/ PtyWaitPoll(t)
    \/ \E c \in Children :
        \/ ChildRestoreMask(c)
        \/ ChildResetHandler(c)
        \/ ChildSetsid(c)
        \/ ChildOpenSlave(c)
        \/ ChildCtty(c)
        \/ ChildDupStdin(c)
        \/ ChildDupStdout(c)
        \/ ChildDupStderr(c)
        \/ ChildCloseSpare(c)
        \/ ChildChdir(c)
        \/ ChildExecve(c)
        \/ ProgramExit(c)

Spec == Init /\ [][Next]_vars

\* Spawning while signals reach the children: the caller allocates and
\* spawns, and a signal may be sent to a child during its setup.
NextSignal ==
    \/ \E t \in {"main"} :
        \/ PtyOpen(t)
        \/ PtySpawnCall(t)
        \/ PtySpawnFork(t)
        \/ PtySpawnParent(t)
    \/ \E c \in Children :
        \/ SignalChild(c)
        \/ ChildRestoreMask(c)
        \/ ChildResetHandler(c)
        \/ ChildSetsid(c)
        \/ ChildOpenSlave(c)
        \/ ChildCtty(c)
        \/ ChildDupStdin(c)
        \/ ChildDupStdout(c)
        \/ ChildDupStderr(c)
        \/ ChildCloseSpare(c)
        \/ ChildChdir(c)
        \/ ChildExecve(c)

SpecSignal == Init /\ [][NextSignal]_vars

\* Terminal geometry: the caller allocates, resizes and closes masters and
\* spawns children on them while it does.
NextGeometry ==
    \/ \E t \in {"main"} :
        \/ PtyOpen(t)
        \/ PtyResize(t)
        \/ CloseMaster(t)
        \/ PtySpawnCall(t)
        \/ PtySpawnFork(t)
        \/ PtySpawnParent(t)
    \/ \E c \in Children :
        \/ ChildRestoreMask(c)
        \/ ChildResetHandler(c)
        \/ ChildSetsid(c)
        \/ ChildOpenSlave(c)
        \/ ChildCtty(c)
        \/ ChildDupStdin(c)
        \/ ChildDupStdout(c)
        \/ ChildDupStderr(c)
        \/ ChildCloseSpare(c)
        \/ ChildChdir(c)
        \/ ChildExecve(c)

SpecGeometry == Init /\ [][NextGeometry]_vars

\* Two threads of the caller, after the main thread has allocated a
\* pseudo-terminal of 80 x 24 with pty_open: the main thread spawns and
\* waits, the waiter thread waits, both possibly for the same pid at the
\* same time.
InitConcurrent ==
    LET fd == LowestFree(StdioOpen)
        p == MinOf(Ptys)
    IN
    /\ fds = [StdioOpen EXCEPT ![fd] = Master(p)]
    /\ ptys = [q \in Ptys |-> IF q = p THEN OpenedPty(80, 24, TRUE) ELSE NoPty]
    /\ handlers = AllDefault
    /\ thr = [t \in Threads |-> IdleThread({SIGTERM})]
    /\ res = [t \in Threads |->
                IF t = "main"
                THEN [OpenedResult(<<FALSE, FALSE, MinSlaveNameLen>>, fd, p, 80, 24, TRUE)
                         EXCEPT !.done = TRUE]
                ELSE NoRes]
    /\ child = [c \in Children |-> NoChild]

NextConcurrent ==
    \/ \E t \in {"main"} :
        \/ PtySpawnCall(t)
        \/ PtySpawnFork(t)
        \/ PtySpawnParent(t)
    \/ \E t \in Threads :
        \/ PtyWaitCall(t)
        \/ PtyWaitBlock(t)
        \/ PtyWaitPoll(t)
    \/ \E c \in Children :
        \/ ChildRestoreMask(c)
        \/ ChildResetHandler(c)
        \/ ChildSetsid(c)
        \/ ChildOpenSlave(c)
        \/ ChildCtty(c)
        \/ ChildDupStdin(c)
        \/ ChildDupStdout(c)
        \/ ChildDupStderr(c)
        \/ ChildCloseSpare(c)
        \/ ChildChdir(c)
        \/ ChildExecve(c)
        \/ ProgramExit(c)

SpecConcurrent == InitConcurrent /\ [][NextConcurrent]_vars

\* The end of the int range: a child of pty_spawn runs a program that never
\* terminates, and the main thread is inside a bounded pty_wait on it, with
\* a timeout among the TopSpan + 1 largest ints, a few polls before elapsed
\* gets to the last multiple of 10 an int holds.  (calls holds the calls
\* made from that moment on.)
RunningProgram ==
    LET p == MinOf(Ptys)
        sfd == LowestFree([StdioOpen EXCEPT ![LowestFree(StdioOpen)] = Master(p)])
    IN
    [NoChild EXCEPT
        !.st = "program", !.exec = "ok", !.env = "envp",
        !.mask = {SIGTERM}, !.entry_mask = {SIGTERM},
        !.fds = [fd \in FdNums |->
                    IF fd <= STDERR_FILENO THEN Slave(p)
                    ELSE IF fd = LowestFree(StdioOpen) THEN Master(p) ELSE Free],
        !.slave = p, !.slave_fd = sfd, !.session = "new", !.ctty = p,
        !.ioctls = <<"ok">>,
        !.trace = <<"restore_mask">>
                  \o [i \in 1..Cardinality(TrackedSignals) |-> "reset_handlers"]
                  \o <<"setsid", "open", "ctty", "dup_stdin", "dup_stdout",
                       "dup_stderr", "close_spare", "execve">>]
TopTimeouts == {IntMax - k : k \in 0..TopSpan}
LastSafeElapsed == (IntMax \div PollIntervalMs) * PollIntervalMs
StartElapsed ==
    {LastSafeElapsed - PollIntervalMs * (i + 1) : i \in 1..StartSteps}

InitOverflow ==
    LET p == MinOf(Ptys)
        c == MinOf(Children)
    IN
    /\ fds = [StdioOpen EXCEPT ![LowestFree(StdioOpen)] = Master(p)]
    /\ ptys = [q \in Ptys |-> IF q = p THEN OpenedPty(80, 24, TRUE) ELSE NoPty]
    /\ handlers = AllDefault
    /\ child = [d \in Children |-> IF d = c THEN RunningProgram ELSE NoChild]
    /\ \E timeout_ms \in TopTimeouts, elapsed \in StartElapsed, osnull \in BOOLEAN :
        /\ thr = [t \in Threads |->
                    IF t = "main"
                    THEN [IdleThread({SIGTERM}) EXCEPT
                             !.pc = "wait_poll", !.wpid = c, !.timeout = timeout_ms,
                             !.elapsed = elapsed, !.osnull = osnull]
                    ELSE IdleThread({SIGTERM})]
        /\ res = [t \in Threads |->
                    IF t = "main"
                    THEN [NoRes EXCEPT !.op = "pty_wait", !.pid = c,
                                       !.timeout = timeout_ms, !.found = "running"]
                    ELSE NoRes]

NextOverflow == \E t \in {"main"} : PtyWaitPoll(t)

SpecOverflow == InitOverflow /\ [][NextOverflow]_vars

\* ------------------------------------------------------------------- claims
Returned(t, op) == res[t].op = op /\ res[t].done
Errno(t) == thr[t].errno

\* C1: in the child of pty_spawn no signal is unblocked while the child
\* still has a handler inherited from the parent for it, and so no inherited
\* handler ever runs in the child.
C1_HandlersResetBeforeUnblock ==
    \A c \in Children :
        /\ SetupChild(c) =>
              \A s \in child[c].inherited :
                  s \notin child[c].mask => child[c].handlers[s] # "HANDLER"
        /\ child[c].ran = {}

\* C2: when the child replaces its image, and in the program it becomes,
\* no descriptor of the child refers to a PTY master.
C2_ChildHoldsNoMasterAtExec ==
    \A c \in Children :
        (At(c, "execve") \/ child[c].st = "program") =>
            \A p \in Ptys : ~HoldsMaster(child[c].fds, p)

\* C3: every blockable signal is blocked in the parent and in the child at
\* the instant of fork, and every path out of a pty_spawn call that passed
\* validation has the mask of its entry again: the parent after a failed
\* fork, the parent after a successful one, the child before its setup.
C3_MaskBlockedAtForkAndRestored ==
    /\ \A t \in Threads :
          /\ thr[t].pc = "spawn_fork" => thr[t].mask = Blockable
          /\ (Returned(t, "pty_spawn") /\ res[t].valid) =>
                thr[t].mask = res[t].entry_mask
    /\ \A c \in Children :
          /\ At(c, "restore_mask") => child[c].mask = Blockable
          /\ (SetupChild(c) /\ child[c].pc # "restore_mask") =>
                child[c].mask = child[c].entry_mask

\* C3, witness: a fork succeeded with a mask at entry that left signals
\* unblocked; the parent has returned 0 and the child is past its restore,
\* both with that mask.
C3_Witness ==
    \E t \in Threads, c \in Children :
        /\ Returned(t, "pty_spawn") /\ res[t].ret = 0 /\ res[t].forked = {c}
        /\ res[t].entry_mask # Blockable
        /\ thr[t].mask = res[t].entry_mask
        /\ At(c, "reset_handlers")
        /\ child[c].mask = res[t].entry_mask

\* The steps of the child whose failure ends it with _exit(127).
FatalSteps == {"setsid", "open", "dup_stdin", "dup_stdout", "dup_stderr", "execve"}

\* C4: pty_spawn returns -1 only when no fork succeeded, with EINVAL for
\* invalid arguments and with the errno fork set for a failed fork; once
\* fork succeeded it returns 0 and stores the child's pid; a pty_wait that
\* returns 0 for a child ended by a failed step has stored 127.
C4_ErrorsOnlyBeforeFork ==
    \A t \in Threads :
        /\ (Returned(t, "pty_spawn") /\ res[t].ret = -1) =>
              /\ res[t].forked = {} /\ res[t].out_pid = {}
              /\ \/ ~res[t].valid /\ Errno(t) = "EINVAL"
                 \/ /\ res[t].valid /\ res[t].failcall = "fork"
                    /\ Errno(t) = res[t].cause /\ res[t].cause = StepErrno("fork")
        /\ (Returned(t, "pty_spawn") /\ res[t].forked # {}) =>
              res[t].ret = 0 /\ res[t].out_pid = res[t].forked
        /\ (Returned(t, "pty_spawn") /\ res[t].ret = 0) => res[t].forked # {}
        /\ (Returned(t, "pty_wait") /\ res[t].ret = 0 /\ res[t].failed # "none") =>
              /\ res[t].raw = {ExitStatus(ChildFailureCode)}
              /\ res[t].out_status \subseteq {ChildFailureCode}

\* C4, witness: a wait on a child whose execve failed stored 127.
C4_Witness ==
    \E t \in Threads :
        /\ Returned(t, "pty_wait") /\ res[t].ret = 0
        /\ res[t].failed = "execve"
        /\ res[t].out_status = {ChildFailureCode}

\* C5 as stated: the child-side code ends the child with 127 only after a
\* failed execve.
C5_OnlyExecveFailureExits127 ==
    \A c \in Children :
        (child[c].st = "zombie" /\ child[c].failed # "none") =>
            child[c].exec = "failed"

\* C5 as amended: the child-side code ends the child, always with 127,
\* exactly when setsid, the slave open, one of the three dup2 calls or
\* execve failed; a child that ended on a failed step other than execve
\* never attempted execve.
C5_FatalStepsExit127 ==
    \A c \in Children :
        (child[c].st = "zombie" /\ child[c].exec # "ok") =>
            /\ child[c].raw = ExitStatus(ChildFailureCode)
            /\ child[c].failed \in FatalSteps
            /\ (child[c].failed = "execve") = (child[c].exec = "failed")

\* C5, witness: a child ended with 127 by a failed dup2, before any execve.
C5_Witness ==
    \E c \in Children :
        /\ child[c].st = "zombie" /\ child[c].failed = "dup_stdout"
        /\ child[c].exec = "no"
        /\ child[c].raw = ExitStatus(ChildFailureCode)

\* C6: whenever an OS call made by an operation of the caller fails, the
\* operation returns -1 with the errno of that call.
C6_EveryOsFailureSurfaced ==
    \A t \in Threads :
        (res[t].done /\ res[t].failcall # "none") =>
            res[t].ret = -1 /\ Errno(t) = res[t].cause

\* C7: after a successful pty_open with positive width and height, the
\* geometry of the pseudo-terminal is exactly that width and height, with
\* pixel dimensions 0.
C7_GeometryRoundTrip ==
    \A t \in Threads :
        (Returned(t, "pty_open") /\ res[t].ret = 0 /\ res[t].w > 0 /\ res[t].h > 0) =>
            ptys[res[t].pty].ws =
                [ws_row |-> res[t].h, ws_col |-> res[t].w,
                 ws_xpixel |-> 0, ws_ypixel |-> 0]

\* C8: a pty_open in which one of the four allocation steps failed returns
\* -1 with the errno of that step, has not written *out_master_fd and has
\* left no descriptor it opened open; a descriptor the call opened is open
\* only when the call returned 0 and stored it; every master descriptor of
\* the caller belongs to an allocated pseudo-terminal.
C8_FailedOpenLeavesNothing ==
    /\ \A t \in Threads :
          Returned(t, "pty_open") =>
              /\ res[t].failcall \in (OpenFailPoints \ {"none"}) =>
                    /\ res[t].ret = -1
                    /\ Errno(t) = res[t].cause
                    /\ res[t].cause = StepErrno(res[t].failcall)
                    /\ res[t].out_master_fd = {}
                    /\ \A fd \in res[t].fd : fds[fd] = Free
              /\ \A fd \in res[t].fd :
                    fds[fd] # Free =>
                        /\ res[t].ret = 0
                        /\ res[t].out_master_fd = {fd}
                        /\ fds[fd] = Master(res[t].pty)
    /\ \A fd \in FdNums :
          fds[fd].kind = "master" => ptys[fds[fd].pty].alloc

\* C8, witness: unlockpt failed after the master had been opened.
C8_Witness ==
    \E t \in Threads :
        /\ Returned(t, "pty_open") /\ res[t].failcall = "unlockpt"
        /\ res[t].ret = -1 /\ Errno(t) = StepErrno("unlockpt")
        /\ res[t].fd # {} /\ \A fd \in res[t].fd : fds[fd] = Free

\* C9: a pty_open with a null output pointer or a capacity below 256
\* returns -1 with EINVAL, has made no OS call, opened no descriptor and
\* written neither output.
C9_SmallBufferRejected ==
    \A t \in Threads :
        (Returned(t, "pty_open") /\ ~res[t].valid) =>
            /\ res[t].ret = -1 /\ Errno(t) = "EINVAL"
            /\ res[t].calls = <<>>
            /\ res[t].fd = {}
            /\ res[t].out_master_fd = {} /\ res[t].out_slave_name = {}
            /\ \A fd \in FdNums : fds[fd].kind = "master" => ptys[fds[fd].pty].alloc

\* C9, witness: both pointers given, capacity 255.
C9_Witness ==
    \E t \in Threads :
        /\ Returned(t, "pty_open") /\ res[t].ret = -1
        /\ res[t].args = <<FALSE, FALSE, 255>>
        /\ Errno(t) = "EINVAL"

\* C10: a pty_spawn with a null path, argv, slave_name or out_pid returns -1
\* with EINVAL having made no OS call: the mask is the one of its entry, no
\* child was forked and *out_pid is not written; no such call ever gets as
\* far as blocking signals.
C10_NullArgsRejected ==
    \A t \in Threads :
        /\ (res[t].op = "pty_spawn" /\ ~res[t].valid) =>
              /\ res[t].done
              /\ res[t].ret = -1 /\ Errno(t) = "EINVAL"
              /\ res[t].calls = <<>>
              /\ thr[t].mask = res[t].entry_mask
              /\ res[t].forked = {} /\ res[t].out_pid = {}
        /\ thr[t].pc \in {"spawn_fork", "spawn_parent"} => res[t].valid

\* C10, witness: slave_name is the only null argument.
C10_Witness ==
    \E t \in Threads :
        /\ Returned(t, "pty_spawn") /\ res[t].ret = -1
        /\ res[t].args = <<FALSE, FALSE, TRUE, FALSE>>
        /\ Errno(t) = "EINVAL"
        /\ \A c \in Children : child[c].st = "none"

\* The polls (waitpid calls) and the sleeps a pty_wait has made so far.
Polls(t) == Cardinality({i \in DOMAIN res[t].calls : res[t].calls[i] = "waitpid"})
Sleeps(t) == Cardinality({i \in DOMAIN res[t].calls : res[t].calls[i] = "usleep"})
CeilDiv(a, b) == (a + b - 1) \div b

\* C11: a bounded pty_wait never waits for the child (its next step never
\* depends on the child's state), sleeps only after a poll that found the
\* child running and adds 10 ms per such poll; it returns 0 or -1 at the
\* first poll that finds the child terminated or fails, without sleeping
\* again; it returns 1 only with elapsed >= timeout_ms after polls that all
\* found the child running; it makes at most ceil(timeout_ms / 10) polls.
C11_BoundedWaitPolls ==
    \A t \in Threads :
        (res[t].op = "pty_wait" /\ res[t].timeout >= 0) =>
            /\ Polls(t) <= CeilDiv(res[t].timeout, PollIntervalMs)
            /\ \A i \in DOMAIN res[t].calls :
                  res[t].calls[i] = "usleep" => i > 1 /\ res[t].calls[i - 1] = "waitpid"
            /\ ~res[t].done =>
                  /\ thr[t].pc = "wait_poll"
                  /\ ENABLED PtyWaitPoll(t)
                  /\ Polls(t) = Sleeps(t)
                  /\ thr[t].elapsed = PollIntervalMs * Sleeps(t)
            /\ res[t].done =>
                  /\ res[t].elapsed = PollIntervalMs * Sleeps(t)
                  /\ res[t].ret \in {0, 1, -1}
                  /\ res[t].ret = 1 =>
                        /\ res[t].elapsed >= res[t].timeout
                        /\ Polls(t) = Sleeps(t)
                        /\ Polls(t) = CeilDiv(res[t].timeout, PollIntervalMs)
                        /\ res[t].failcall = "none" /\ res[t].raw = {}
                  /\ res[t].ret = 0 =>
                        /\ Polls(t) = Sleeps(t) + 1
                        /\ res[t].calls[Len(res[t].calls)] = "waitpid"
                        /\ res[t].raw # {} /\ res[t].failcall = "none"
                  /\ res[t].ret = -1 =>
                        /\ Polls(t) = Sleeps(t) + 1
                        /\ res[t].calls[Len(res[t].calls)] = "waitpid"
                        /\ res[t].raw = {} /\ res[t].failcall = "waitpid"

\* C11, witness: a wait bounded by 15 ms timed out after two polls, with
\* elapsed 20.
C11_Witness ==
    \E t \in Threads :
        /\ Returned(t, "pty_wait") /\ res[t].timeout = 15 /\ res[t].ret = 1
        /\ Polls(t) = 2 /\ res[t].elapsed = 20

\* Raw statuses of every shape with the exit outcome of each: the exit code
\* of a process that exited, 128 + the signal number of one a signal
\* terminated (without and with the core-dump flag), -1 for a stop and a
\* continue.
ExitCodes == 0..255
StatusOutcomes ==
    {<<ExitStatus(code), code>> : code \in {0, 1, ChildFailureCode, 255}}
    \cup {<<SignalStatus(s), 128 + s>> : s \in {SIGINT, SIGKILL, SIGTERM}}
    \cup {<<SignalStatus(s) + 128, 128 + s>> : s \in {SIGINT, SIGTERM}}
    \cup {<<127 + 256 * SIGSTOP, -1>>, <<65535, -1>>}
StatusShapes == {so[1] : so \in StatusOutcomes}
ExitOutcome(raw) == (CHOOSE so \in StatusOutcomes : so[1] = raw)[2]

\* C12: a bounded pty_wait that returned 1 has written no status and has
\* not taken the child out of the process table; the thread's next pty_wait
\* on the same pid, once the child exists, never fails: an infinite one
\* returns 0, a bounded one returns 0 or times out again, and a return of 0
\* carries the outcome of that child's raw status.
C12_TimeoutDoesNotReap ==
    \A t \in Threads :
        /\ (Returned(t, "pty_wait") /\ res[t].ret = 1) =>
              /\ res[t].out_status = {} /\ res[t].raw = {}
              /\ res[t].found # "error" => child[res[t].pid].st \notin {"none", "reaped"}
        /\ (Returned(t, "pty_wait") /\ res[t].after_timeout /\ res[t].found # "error") =>
              /\ res[t].ret \in {0, 1}
              /\ res[t].timeout < 0 => res[t].ret = 0
              /\ res[t].ret = 0 =>
                    /\ child[res[t].pid].st = "reaped"
                    /\ \E raw \in res[t].raw : res[t].out_status \subseteq {ExitOutcome(raw)}

\* C12, witness: a wait timed out; the next wait on the same pid, bounded by
\* 15 ms, found the child running at its first poll and returned 0 with exit
\* code 0 at its second.
C12_Witness ==
    \E t \in Threads :
        /\ Returned(t, "pty_wait") /\ res[t].after_timeout
        /\ res[t].timeout = 15 /\ Polls(t) = 2
        /\ res[t].ret = 0 /\ res[t].out_status = {0}

\* Both modes translate every shape of raw status to its exit outcome.
TranslationsAgree ==
    \A so \in StatusOutcomes :
        /\ TranslateInfinite(so[1]) = so[2]
        /\ TranslateBounded(so[1]) = so[2]
        /\ so[2] \in ExitCodes \cup {128 + s : s \in 1..(NSIG - 1)} \cup {-1}

\* C13: whenever pty_wait has returned 0 and stored a status, the stored
\* value is the exit outcome of the raw status waitpid gave: the exit code,
\* in 0..255, of a child that exited and 128 + the signal number of one a
\* signal terminated; on every shape of raw status the infinite and the
\* bounded mode compute that same value, -1 for a shape that is neither.
C13_StatusTranslation ==
    /\ \A t \in Threads :
          (Returned(t, "pty_wait") /\ res[t].ret = 0 /\ res[t].out_status # {}) =>
              \E raw \in res[t].raw :
                  /\ res[t].out_status = {ExitOutcome(raw)}
                  /\ raw \in StatusShapes
                  /\ WIFEXITED(raw) => ExitOutcome(raw) \in ExitCodes
    /\ TranslationsAgree

\* C13, witness: a bounded wait stored 137 for a child SIGKILL terminated.
C13_Witness ==
    \E t \in Threads :
        /\ Returned(t, "pty_wait") /\ res[t].timeout >= 0 /\ res[t].ret = 0
        /\ res[t].raw = {SignalStatus(SIGKILL)}
        /\ res[t].out_status = {128 + SIGKILL}

\* A step in which thread t returns from pty_resize.
ResizeReturns(t) ==
    /\ res'[t].op = "pty_resize" /\ res'[t].done
    /\ res'[t] # res[t] \/ thr'[t] # thr[t]

\* C14: a pty_resize that succeeds leaves the geometry WinsizeOf(width,
\* height) on the terminal of the descriptor and changes nothing else; one
\* that repeats the arguments of the successful pty_resize before it changes
\* nothing at all; the pixel dimensions of every terminal are always 0; a
\* pty_resize on a closed descriptor or on one that is no terminal returns -1
\* and leaves every terminal's geometry, the descriptors and the children
\* unchanged.
C14_ResizeIdempotent ==
    /\ [](\A p \in Ptys : ptys[p].ws.ws_xpixel = 0 /\ ptys[p].ws.ws_ypixel = 0)
    /\ [][\A t \in Threads :
            ResizeReturns(t) =>
                /\ child' = child /\ fds' = fds
                /\ res'[t].calls = <<"ioctl">>
                /\ res'[t].ret \in {0, -1}
                /\ res'[t].ret = 0 =>
                      /\ \A fd \in res'[t].fd : fds[fd].kind \in {"master", "slave"}
                      /\ ptys' = [ptys EXCEPT ![res'[t].pty].ws =
                                     WinsizeOf(res'[t].w, res'[t].h)]
                      /\ res'[t].again => ptys' = ptys
                /\ res'[t].ret = -1 =>
                      /\ \A fd \in res'[t].fd : fds[fd].kind \in {"free", "other"}
                      /\ ptys' = ptys
                      /\ thr'[t].errno \in {"EBADF", "ENOTTY"}
         ]_vars

\* C14, witness: a second pty_resize with the arguments of the first has
\* returned 0 and the terminal has the geometry asked for, 80 x 24.
C14_Witness ==
    \E t \in Threads :
        /\ Returned(t, "pty_resize") /\ res[t].ret = 0 /\ res[t].again
        /\ res[t].w = 80 /\ res[t].h = 24
        /\ ptys[res[t].pty].ws = [ws_row |-> 24, ws_col |-> 80,
                                   ws_xpixel |-> 0, ws_ypixel |-> 0]

\* The steps of the child in the order of the code, and the ones every
\* child that gets to execve has made.
SetupOrder ==
    <<"restore_mask", "reset_handlers", "setsid", "open", "ctty", "ctty_force",
      "dup_stdin", "dup_stdout", "dup_stderr", "close_spare", "chdir", "execve">>
RankOf ==
    [step \in {SetupOrder[i] : i \in DOMAIN SetupOrder} |->
        CHOOSE i \in DOMAIN SetupOrder : SetupOrder[i] = step]
StepsBeforeExecve ==
    {"restore_mask", "reset_handlers", "setsid", "open", "ctty",
     "dup_stdin", "dup_stdout", "dup_stderr"}
StepsOf(tr) == {tr[i] : i \in DOMAIN tr}
InOrder(tr) ==
    \A i \in 1..(Len(tr) - 1) :
        \/ RankOf[tr[i]] < RankOf[tr[i + 1]]
        \/ tr[i] = "reset_handlers" /\ tr[i + 1] = "reset_handlers"
AtImageReplacement(c) == At(c, "execve") \/ child[c].st = "program"

\* C15: the steps of a child are always in the order restore mask, reset
\* handlers, setsid, open slave, controlling-terminal attempts, dup2 onto 0,
\* onto 1, onto 2, close of the spare descriptor, chdir, execve; a child at
\* execve has made every one of them up to the third dup2, and its
\* descriptors 0, 1 and 2 refer to the slave it opened while the descriptor
\* open returned is closed exactly when its number is above 2.
C15_ChildStepOrder ==
    \A c \in Children :
        /\ InOrder(child[c].trace)
        /\ AtImageReplacement(c) =>
              LET tab == child[c].fds
                  sfd == child[c].slave_fd
                  dev == Slave(child[c].slave)
              IN
              /\ StepsBeforeExecve \subseteq StepsOf(child[c].trace)
              /\ ("execve" \in StepsOf(child[c].trace)) = (child[c].st = "program")
              /\ ("close_spare" \in StepsOf(child[c].trace)) = (sfd > STDERR_FILENO)
              /\ child[c].slave \in Ptys
              /\ \A fd \in {STDIN_FILENO, STDOUT_FILENO, STDERR_FILENO} : tab[fd] = dev
              /\ (tab[sfd] = Free) = (sfd > STDERR_FILENO)
              /\ sfd <= STDERR_FILENO => tab[sfd] = dev

\* C15, witness: a child became the program after the slave had been opened
\* as descriptor 4 and closed again, with both controlling-terminal
\* attempts and a chdir made.
C15_Witness ==
    \E c \in Children :
        /\ child[c].st = "program" /\ child[c].slave_fd = 4
        /\ child[c].fds[4] = Free
        /\ {"ctty_force", "close_spare", "chdir"} \subseteq StepsOf(child[c].trace)

\* The steps whose failure ends the child before execve is attempted.
FatalBeforeExecve == FatalSteps \ {"execve"}

\* C16: a child in which setsid, the open of the slave or one of the three
\* dup2 calls fails is, in that very step, terminated with exit code 127
\* without having attempted execve; a terminated child never takes another
\* step; and a child that attempted execve, or runs the program, has a new
\* session, has opened the slave and has it on descriptors 0, 1 and 2.
C16_FatalStepFailureEndsChild ==
    /\ [](\A c \in Children :
           /\ child[c].failed \in FatalBeforeExecve =>
                 /\ child[c].st = "zombie" /\ child[c].exec = "no"
                 /\ child[c].raw = ExitStatus(ChildFailureCode)
           /\ (child[c].st = "program" \/ At(c, "execve")) =>
                 /\ child[c].failed = "none"
                 /\ child[c].session = "new"
                 /\ child[c].slave \in Ptys
                 /\ \A fd \in {STDIN_FILENO, STDOUT_FILENO, STDERR_FILENO} :
                       child[c].fds[fd] = Slave(child[c].slave))
    /\ [][\A c \in Children :
            /\ (child[c].failed = "none" /\ child'[c].failed \in FatalBeforeExecve) =>
                  /\ At(c, child'[c].failed)
                  /\ child'[c].st = "zombie"
            /\ child[c].st = "zombie" =>
                  \/ child'[c] = child[c]
                  \/ child'[c].st = "reaped"
         ]_vars

\* C16, witness: the dup2 onto descriptor 2 failed and the child is
\* terminated with 127, execve not attempted.
C16_Witness ==
    \E c \in Children :
        /\ child[c].st = "zombie" /\ child[c].failed = "dup_stderr"
        /\ child[c].raw = ExitStatus(ChildFailureCode)
        /\ child[c].exec = "no"

\* The positions of a child between its third dup2 and execve.
AfterDups == <<"close_spare", "chdir", "execve">>

\* C17: the forcing controlling-terminal request is made exactly when the
\* non-forcing one failed; the child leaves the controlling-terminal step
\* for the first dup2 and the steps after the third dup2 for the next one up
\* to execve, whatever the requests and chdir returned; chdir is called
\* exactly when working_dir is neither null nor empty.
C17_BestEffortStepsNeverFatal ==
    /\ [](\A c \in Children :
           /\ child[c].failed \notin {"ctty", "ctty_force", "chdir", "close_spare"}
           /\ child[c].ioctls # <<>> =>
                 /\ child[c].ioctls[1] = "failed" <=> Len(child[c].ioctls) = 2
                 /\ child[c].ioctls[1] = "failed" <=> "ctty_force" \in StepsOf(child[c].trace)
                 /\ "ctty" \in child[c].soft <=>
                       child[c].ioctls[Len(child[c].ioctls)] = "failed"
           /\ AtImageReplacement(c) =>
                 /\ "chdir" \in StepsOf(child[c].trace) <=> ChangesDir(child[c].wd)
                 /\ "chdir" \in child[c].soft => child[c].cwd = "inherited"
                 /\ ChangesDir(child[c].wd) /\ "chdir" \notin child[c].soft =>
                       child[c].cwd = child[c].wd)
    /\ [][\A c \in Children :
            /\ (At(c, "ctty") /\ child'[c] # child[c]) =>
                  child'[c].st = "setup" /\ child'[c].pc = "dup_stdin"
            /\ \A i \in 1..2 :
                  (At(c, AfterDups[i]) /\ child'[c] # child[c]) =>
                      child'[c].st = "setup" /\ child'[c].pc = AfterDups[i + 1]
         ]_vars

\* C17, witness: both controlling-terminal requests and the chdir failed,
\* and the child runs the program in the directory it inherited.
C17_Witness ==
    \E c \in Children :
        /\ child[c].st = "program" /\ child[c].exec = "ok"
        /\ child[c].ioctls = <<"failed", "failed">>
        /\ child[c].soft = {"ctty", "chdir"}
        /\ child[c].cwd = "inherited" /\ child[c].ctty = 0

\* C18: a pty_wait called on a child that had terminated and had not been
\* reaped returns 0 with the outcome of the child's raw status, whatever its
\* timeout; it never returns 1.
C18_TerminatedChildNeverTimesOut ==
    \A t \in Threads :
        (Returned(t, "pty_wait") /\ res[t].found = "terminated") =>
            /\ res[t].ret = 0
            /\ \E raw \in res[t].raw : res[t].out_status \subseteq {ExitOutcome(raw)}

\* Two returned waits on one pid, each in progress at a moment of the other.
Overlapped(t, u) ==
    /\ t # u
    /\ Returned(t, "pty_wait") /\ Returned(u, "pty_wait")
    /\ res[t].pid = res[u].pid
    /\ res[t].overlap /\ res[u].overlap
\* A step in which thread t returns from a pty_wait on child c.
WaitReturns(t, c) ==
    /\ res'[t] # res[t]
    /\ res'[t].op = "pty_wait" /\ res'[t].done /\ res'[t].pid = c

\* C19 as stated: a pty_wait called on a pid that has been reaped returns
\* -1, and of two pty_wait calls on one pid that ran concurrently, when one
\* returned 0 the other returned -1.
C19_OutcomeOnceOthersFail ==
    \A t \in Threads :
        /\ (Returned(t, "pty_wait") /\ res[t].reaped_before) => res[t].ret = -1
        /\ \A u \in Threads :
              (Overlapped(t, u) /\ res[t].ret = 0) => res[u].ret = -1

\* C19 as amended: a child is reaped in a step in which exactly one
\* pty_wait returns 0, and stays reaped; no pty_wait on its pid returns 0
\* afterwards; a pty_wait called after the reap returns -1 at its first
\* poll, and 1 without polling when its timeout is 0; of two pty_wait calls
\* on one pid that ran concurrently at most one returns 0, and then the
\* other returns -1, or 1 when none of its polls found the child terminated.
C19_OutcomeDeliveredOnce ==
    /\ [](\A t \in Threads :
           /\ (Returned(t, "pty_wait") /\ res[t].reaped_before) =>
                 /\ res[t].timeout = 0 => res[t].ret = 1 /\ res[t].calls = <<>>
                 /\ res[t].timeout # 0 =>
                       /\ res[t].ret = -1 /\ res[t].calls = <<"waitpid">>
                       /\ res[t].failcall = "waitpid"
           /\ \A u \in Threads \ {t} :
                 /\ (/\ Returned(t, "pty_wait") /\ Returned(u, "pty_wait")
                     /\ res[t].pid = res[u].pid) =>
                       ~(res[t].ret = 0 /\ res[u].ret = 0)
                 /\ (Overlapped(t, u) /\ res[t].ret = 0) =>
                       /\ res[u].ret \in {-1, 1}
                       /\ res[u].ret = 1 => Polls(u) = Sleeps(u) /\ res[u].raw = {}
                       /\ res[u].ret = -1 => res[u].failcall = "waitpid")
    /\ [][\A c \in Children :
            /\ child[c].st = "reaped" =>
                  /\ child'[c].st = "reaped"
                  /\ \A t \in Threads : WaitReturns(t, c) => res'[t].ret \in {-1, 1}
            /\ (child[c].st # "reaped" /\ child'[c].st = "reaped") =>
                  /\ child[c].st = "zombie"
                  /\ Cardinality({t \in Threads : WaitReturns(t, c) /\ res'[t].ret = 0}) = 1
            /\ \A t \in Threads :
                  (WaitReturns(t, c) /\ res'[t].ret = 0) =>
                      child[c].st = "zombie" /\ child'[c].st = "reaped"
         ]_vars

\* C19, witness: two waits on one pid ran concurrently; one returned 0 with
\* the outcome, the other returned -1.
C19_Witness ==
    \E t, u \in Threads :
        /\ Overlapped(t, u)
        /\ res[t].ret = 0 /\ res[t].out_status # {}
        /\ res[u].ret = -1 /\ res[u].out_status = {}
        /\ child[res[t].pid].st = "reaped"

\* C20: in a bounded pty_wait on a child that never terminates, elapsed is
\* always an int of the range 0 .. 2^31 - 1, the addition elapsed += 10
\* never leaves the int range, and the only way out of the loop is the
\* return of 1.
C20_ElapsedNeverOverflows ==
    \A t \in Threads :
        /\ thr[t].pc # "aborted"
        /\ thr[t].elapsed >= 0 /\ thr[t].elapsed <= IntMax
        /\ Returned(t, "pty_wait") => res[t].ret = 1 /\ res[t].elapsed >= res[t].timeout

====
